---- MODULE Spec2Model ----
(***************************************************************************)
(* A model of app.py, the AI learning-roadmap generator: the step-count    *)
(* arithmetic (parse_months, compute_steps), the truncation done by        *)
(* generate_roadmap, the word wrapping textwrap.wrap performs for draw_box *)
(* and draw_roadmap, the layout state machine of draw_roadmap, and run,    *)
(* which persists the image and the steps text to two fixed paths.         *)
(*                                                                         *)
(* Strings are sequences of one-character strings, so that lengths,        *)
(* slices and character classes are computed as Python computes them.      *)
(***************************************************************************)
EXTENDS Integers, Sequences, FiniteSets, TLC

\* ------------------------------------------------------------------------
\* Character classes used by re (\d, \w) and by textwrap's wordsep_re.
\* ------------------------------------------------------------------------
Digits == {"0", "1", "2", "3", "4", "5", "6", "7", "8", "9"}

Letters ==
    {"a", "b", "c", "d", "e", "f", "g", "h", "i", "j", "k", "l", "m",
     "n", "o", "p", "q", "r", "s", "t", "u", "v", "w", "x", "y", "z"}

\* textwrap._whitespace = '\t\n\x0b\x0c\r '
Whitespace == {" ", "\t", "\n", "\r", "\f"}

IsWs(c) == c \in Whitespace

\* letter = [^\d\W]
IsLetter(c) == c \in Letters \cup {"_"}

\* \w
IsWordChar(c) == c \in Letters \cup Digits \cup {"_"}

\* word_punct = [\w!"'&.,?]
IsWordPunct(c) == IsWordChar(c) \/ c \in {"!", "\"", "'", "&", ".", ",", "?"}

\* s[a..b] as Python's s[a-1:b]; empty when b < a.
Slice(s, a, b) == IF b < a THEN <<>> ELSE SubSeq(s, a, b)

\* n copies of the character c.
Rep(c, n) == [k \in 1..n |-> c]

\* chunk.strip() == ''
IsBlank(s) == \A k \in 1..Len(s) : IsWs(s[k])

RECURSIVE Concat(_)
\* ''.join(parts)
Concat(parts) == IF parts = <<>> THEN <<>> ELSE Head(parts) \o Concat(Tail(parts))

RECURSIVE SumLen(_)
\* sum(map(len, parts))
SumLen(parts) == IF parts = <<>> THEN 0 ELSE Len(Head(parts)) + SumLen(Tail(parts))

\* ------------------------------------------------------------------------
\* textwrap.wrap(text, width), with TextWrapper's defaults: expand_tabs,
\* replace_whitespace, drop_whitespace, break_long_words and
\* break_on_hyphens all True, tabsize 8, no indents, max_lines None.
\* ------------------------------------------------------------------------
TabSize == 8

Min(S) == CHOOSE x \in S : \A y \in S : x <= y

Max(S) == CHOOSE x \in S : \A y \in S : x >= y

RECURSIVE expandtabs(_, _)
\* str.expandtabs(8): a tab becomes the spaces up to the next tab stop; the
\* column restarts after a newline or carriage return. col is the column at
\* which text starts; the text up to its first tab or line break is copied.
expandtabs(text, col) ==
    LET stops == {k \in 1..Len(text) : text[k] \in {"\t", "\n", "\r"}} IN
    IF stops = {} THEN text
    ELSE LET k == Min(stops)
             at == col + (k - 1)
             pad == TabSize - (at % TabSize)
         IN  IF text[k] = "\t"
             THEN Slice(text, 1, k - 1) \o Rep(" ", pad)
                      \o expandtabs(Slice(text, k + 1, Len(text)), at + pad)
             ELSE Slice(text, 1, k) \o expandtabs(Slice(text, k + 1, Len(text)), 0)

\* TextWrapper._munge_whitespace: expand tabs, then map every whitespace
\* character to a space.
munge_whitespace(text) ==
    LET e == expandtabs(text, 0) IN
    [k \in 1..Len(e) |-> IF IsWs(e[k]) THEN " " ELSE e[k]]

\* Length of the maximal run of whitespace of t starting at position p.
WsRun(t, p) == Min({k \in p..(Len(t) + 1) : k > Len(t) \/ ~IsWs(t[k])}) - p

\* Length of the maximal run of hyphens of t starting at position p.
HyphRun(t, p) == Min({k \in p..(Len(t) + 1) : k > Len(t) \/ t[k] # "-"}) - p

\* (?=-{2,}\w) at position q
EmDashAhead(t, q) ==
    LET r == HyphRun(t, q) IN
    r >= 2 /\ q + r <= Len(t) /\ IsWordChar(t[q + r])

\* -(?: (?<=lt{2}-) | (?<=lt-lt-)) (?= lt -? lt), the hyphen being t[q]
HyphenBreak(t, q) ==
    /\ q <= Len(t)
    /\ t[q] = "-"
    /\ \/ (q >= 3 /\ IsLetter(t[q - 2]) /\ IsLetter(t[q - 1]))
       \/ (q >= 4 /\ IsLetter(t[q - 3]) /\ t[q - 2] = "-" /\ IsLetter(t[q - 1]))
    /\ q + 2 <= Len(t)
    /\ IsLetter(t[q + 1])
    /\ \/ IsLetter(t[q + 2])
       \/ (t[q + 2] = "-" /\ q + 3 <= Len(t) /\ IsLetter(t[q + 3]))

\* The third alternative of wordsep_re: a lazy run of non-whitespace
\* t[p..q-1], q > p as small as possible, ended by a hyphen break (the hyphen
\* t[q] joins the chunk), by the end of the word, or before an em-dash.
\* The result is the index of the chunk's last character.
WordEnd(t, p) ==
    LET q == Min({k \in (p + 1)..(Len(t) + 1) :
                    \/ k > Len(t)
                    \/ IsWs(t[k])
                    \/ /\ t[k] = "-"
                       /\ \/ HyphenBreak(t, k)
                          \/ (IsWordPunct(t[k - 1]) /\ EmDashAhead(t, k))})
    IN  IF HyphenBreak(t, q) THEN q ELSE q - 1

\* The index of the last character of the wordsep_re match starting at p.
ChunkEnd(t, p) ==
    IF IsWs(t[p]) THEN p + WsRun(t, p) - 1
    ELSE IF p > 1 /\ IsWordPunct(t[p - 1]) /\ EmDashAhead(t, p)
    THEN p + HyphRun(t, p) - 1
    ELSE WordEnd(t, p)

RECURSIVE SplitFrom(_, _)
SplitFrom(t, p) ==
    IF p > Len(t) THEN <<>>
    ELSE LET e == ChunkEnd(t, p) IN <<SubSeq(t, p, e)>> \o SplitFrom(t, e + 1)

\* TextWrapper._split with break_on_hyphens: wordsep_re.split(text), empty
\* chunks removed.
split(text) == SplitFrom(text, 1)

\* TextWrapper._split_chunks
split_chunks(text) == split(munge_whitespace(text))

RECURSIVE Fill(_, _, _)
\* The inner loop of _wrap_chunks: move chunks onto the current line while
\* they fit. Returns the pair <<cur_line, remaining chunks>>.
Fill(chunks, cur_line, width) ==
    IF chunks # <<>> /\ SumLen(cur_line) + Len(Head(chunks)) <= width
    THEN Fill(Tail(chunks), Append(cur_line, Head(chunks)), width)
    ELSE <<cur_line, chunks>>

\* chunk.rfind('-', 0, n) + 1: the last position <= n holding a hyphen, or 0.
RFind(chunk, n) ==
    Max({0} \cup {k \in 1..n : k <= Len(chunk) /\ chunk[k] = "-"})

\* Variant of long_word_end: the long word goes onto the line whole, as with
\* break_long_words off.
long_word_end_whole(chunk, space_left) == Len(chunk)

\* TextWrapper._handle_long_word with break_long_words: the number of
\* characters of the chunk that go onto the current line.
long_word_end(chunk, space_left) ==
    LET hyphen == RFind(chunk, space_left) IN
    IF /\ Len(chunk) > space_left
       /\ hyphen > 1
       /\ \E k \in 1..(hyphen - 1) : chunk[k] # "-"
    THEN hyphen
    ELSE space_left

\* Variant of handle_long_word: what does not fit on the line is dropped.
handle_long_word_truncating(chunks, cur_line, width) ==
    LET space_left == IF width < 1 THEN 1 ELSE width - SumLen(cur_line)
        chunk == Head(chunks)
        end == long_word_end(chunk, space_left)
    IN  <<Append(cur_line, Slice(chunk, 1, end)), Tail(chunks)>>

\* TextWrapper._handle_long_word: <<cur_line, chunks>> after the call.
handle_long_word(chunks, cur_line, width) ==
    LET space_left == IF width < 1 THEN 1 ELSE width - SumLen(cur_line)
        chunk == Head(chunks)
        end == long_word_end(chunk, space_left)
    IN  << Append(cur_line, Slice(chunk, 1, end)),
           <<Slice(chunk, end + 1, Len(chunk))>> \o Tail(chunks) >>

RECURSIVE wrap_chunks(_, _, _)
\* TextWrapper._wrap_chunks: one iteration of the outer loop per call.
wrap_chunks(chunks, lines, width) ==
    IF chunks = <<>> THEN lines
    ELSE LET c0 == IF IsBlank(Head(chunks)) /\ lines # <<>>
                   THEN Tail(chunks) ELSE chunks
             f == Fill(c0, <<>>, width)
             g == IF f[2] # <<>> /\ Len(Head(f[2])) > width
                  THEN handle_long_word(f[2], f[1], width)
                  ELSE f
             cur == IF g[1] # <<>> /\ IsBlank(g[1][Len(g[1])])
                    THEN Slice(g[1], 1, Len(g[1]) - 1)
                    ELSE g[1]
         IN  wrap_chunks(g[2],
                         IF cur # <<>> THEN Append(lines, Concat(cur)) ELSE lines,
                         width)

\* textwrap.wrap(text, width)
wrap(text, width) == wrap_chunks(split_chunks(text), <<>>, width)

\* ------------------------------------------------------------------------
\* CONFIG (app.py lines 14-24)
\* ------------------------------------------------------------------------
THEMES ==
    [Purple |-> [bg |-> "white", box |-> "#E1BEE7", line |-> "#6A1B9A", text |-> "black"],
     Blue   |-> [bg |-> "white", box |-> "#BBDEFB", line |-> "#1E88E5", text |-> "black"],
     Dark   |-> [bg |-> "#1E1E1E", box |-> "#2D2D2D", line |-> "#B0B0B0", text |-> "white"]]

LEVEL_MAX_STEPS == [Beginner |-> 6, Intermediate |-> 10, Advanced |-> 14]

\* ------------------------------------------------------------------------
\* UTILS (app.py lines 30-40)
\* ------------------------------------------------------------------------
DigitValue(c) ==
    CASE c = "0" -> 0 [] c = "1" -> 1 [] c = "2" -> 2 [] c = "3" -> 3 [] c = "4" -> 4
      [] c = "5" -> 5 [] c = "6" -> 6 [] c = "7" -> 7 [] c = "8" -> 8 [] c = "9" -> 9

RECURSIVE int(_)
\* int(s) for a string of decimal digits.
int(s) == IF s = <<>> THEN 0
          ELSE 10 * int(Slice(s, 1, Len(s) - 1)) + DigitValue(s[Len(s)])

\* re.search(r"\d+", duration): the leftmost, longest run of digits, as the
\* pair <<first, last>> of its positions, or <<0, 0>> when there is no digit.
search_digits(duration) ==
    LET ds == {k \in 1..Len(duration) : duration[k] \in Digits} IN
    IF ds = {} THEN <<0, 0>>
    ELSE LET a == Min(ds)
             b == Min({k \in a..Len(duration) :
                         k = Len(duration) \/ duration[k + 1] \notin Digits})
         IN  <<a, b>>

parse_months(duration) ==
    LET m == search_digits(duration) IN
    IF m # <<0, 0>> THEN int(SubSeq(duration, m[1], m[2])) ELSE 3

\* Variant of steps_from_months: without the floor of 3.
steps_from_months_no_floor(mo) == mo * 2

steps_from_months(mo) == IF mo * 2 > 3 THEN mo * 2 ELSE 3

compute_steps(mo, lvl) ==
    IF steps_from_months(mo) < LEVEL_MAX_STEPS[lvl]
    THEN steps_from_months(mo) ELSE LEVEL_MAX_STEPS[lvl]

\* ------------------------------------------------------------------------
\* DRAWING (app.py lines 55-91). A canvas is the record
\* [size, bg, ops]: its pixel size, its background colour and the drawing
\* calls made on it, in order. Every drawing call is a record
\* [op, xy, text, fill, outline]. The horizontal position of a text line
\* depends on the font's measure of it (draw.textlength) and is left out:
\* a text call records its vertical position only.
\* ------------------------------------------------------------------------
DrawOp(op, xy, txt, fill, outline) ==
    [op |-> op, xy |-> xy, text |-> txt, fill |-> fill, outline |-> outline]

HEAD_LENGTH == 14

HEAD_WIDTH == 7

\* draw_arrow(draw, start, end, color): the line and the arrowhead polygon.
\* cos and sin of atan2(dy, dx) are exact for the axis-parallel segments, the
\* only ones draw_roadmap draws (both ends lie on the vertical axis cx).
draw_arrow(start, end, color) ==
    LET dx == end[1] - start[1]
        dy == end[2] - start[2]
        cos == CASE dy = 0 /\ dx >= 0 -> 1 [] dy = 0 /\ dx < 0 -> -1 [] dx = 0 /\ dy # 0 -> 0
        sin == CASE dy = 0 -> 0 [] dx = 0 /\ dy > 0 -> 1 [] dx = 0 /\ dy < 0 -> -1
        hl == HEAD_LENGTH
        hw == HEAD_WIDTH
        p1 == <<end[1] - hl * cos + hw * sin, end[2] - hl * sin - hw * cos>>
        p2 == <<end[1] - hl * cos - hw * sin, end[2] - hl * sin + hw * cos>>
    IN  << DrawOp("line", <<start[1], start[2], end[1], end[2]>>, <<>>, color, ""),
           DrawOp("polygon", end \o p1 \o p2, <<>>, color, "") >>

BOX_WRAP_WIDTH == 38

BOX_PADDING == 34

LINE_HEIGHT == 18

TEXT_TOP == 12

\* Variant of draw_box_wrapped: draw_box wraps at a narrower width than the
\* height pass.
draw_box_wrapped_narrow(txt) == wrap(txt, BOX_WRAP_WIDTH - 18)

\* draw_box, line 73: wrapped = textwrap.wrap(text, width=38)
draw_box_wrapped(txt) == wrap(txt, BOX_WRAP_WIDTH)

\* draw_box, lines 74-91: the rectangle returned, (x, y, x + w, y + h).
draw_box_rect(cx, yy, w, txt) ==
    LET h == BOX_PADDING + Len(draw_box_wrapped(txt)) * LINE_HEIGHT
        x == cx - (w \div 2)
    IN  <<x, yy, x + w, yy + h>>

\* draw_box, lines 77-89: the drawing calls made, the rounded rectangle and
\* then one text call per wrapped line, LINE_HEIGHT apart.
draw_box_ops(cx, yy, w, txt, th) ==
    LET wr == draw_box_wrapped(txt) IN
    <<DrawOp("rounded_rectangle", draw_box_rect(cx, yy, w, txt), <<>>, th.box, th.line)>>
    \o [k \in 1..Len(wr) |->
          DrawOp("text", <<yy + TEXT_TOP + (k - 1) * LINE_HEIGHT>>, wr[k], th.text, "")]

\* ------------------------------------------------------------------------
\* ROADMAP IMAGE (app.py lines 131-155): the constants of draw_roadmap.
\* ------------------------------------------------------------------------
CX == 500

TOP == 60

GAP == 35

BW == 620

BOTTOM == 60

CANVAS_WIDTH == 1000

HEIGHT_WRAP_WIDTH == 38

ARROW_MARGIN == 6

IMG_PATH == "/tmp/roadmap.png"

TXT_PATH == "/tmp/roadmap.txt"

NoTheme == [bg |-> "", box |-> "", line |-> "", text |-> ""]

NoImg == [size |-> <<0, 0>>, bg |-> "", ops |-> <<>>]

NoResult == [steps |-> <<>>, text |-> <<>>, img_path |-> "", txt_path |-> "", error |-> ""]

\* Variant of lookup_theme: an unknown key falls back to the Purple theme,
\* as THEMES.get(theme_name, THEMES["Purple"]) would.
lookup_theme_default(name) ==
    IF name \in DOMAIN THEMES
    THEN [raised |-> FALSE, value |-> THEMES[name]]
    ELSE [raised |-> FALSE, value |-> THEMES["Purple"]]

\* line 132: theme = THEMES[theme_name]; a missing key raises KeyError.
lookup_theme(name) ==
    IF name \in DOMAIN THEMES
    THEN [raised |-> FALSE, value |-> THEMES[name]]
    ELSE [raised |-> TRUE, value |-> NoTheme]

\* Variant of initial_height: no margins counted.
initial_height_no_margin == TOP - BOTTOM

\* line 135: height = top + 60
initial_height == TOP + BOTTOM

\* Variant of step_height: every step counted as one line.
step_height_one_line(s) == BOX_PADDING + LINE_HEIGHT + GAP

\* line 137: what one step adds to height.
step_height(s) == BOX_PADDING + Len(wrap(s, HEIGHT_WRAP_WIDTH)) * LINE_HEIGHT + GAP

\* line 146: y = box[3] + gap
next_y(box) == box[4] + GAP

\* Variant of arrow_count: range(len(boxes) - 2).
arrow_count_short(bs) == Len(bs) - 2

\* line 148: range(len(boxes) - 1)
arrow_count(bs) == Len(bs) - 1

\* Variant of arrow_ends: the head at the next box's bottom edge.
arrow_ends_skip(bs, k) ==
    << <<(bs[k][1] + bs[k][3]) \div 2, bs[k][4] + ARROW_MARGIN>>,
       <<(bs[k + 1][1] + bs[k + 1][3]) \div 2, bs[k + 1][4] - ARROW_MARGIN>> >>

\* lines 149-150: start and end of the arrow leaving the k-th box.
arrow_ends(bs, k) ==
    << <<(bs[k][1] + bs[k][3]) \div 2, bs[k][4] + ARROW_MARGIN>>,
       <<(bs[k + 1][1] + bs[k + 1][3]) \div 2, bs[k + 1][2] - ARROW_MARGIN>> >>

\* Variant of save_path: a path of its own for every invocation.
save_path_unique(p) == IF p = 1 THEN IMG_PATH ELSE "/tmp/roadmap.2.png"

\* line 153: path = "/tmp/roadmap.png", whichever invocation p runs.
save_path(p) == IMG_PATH

\* "\n".join(lines)
RECURSIVE join_lines(_)
join_lines(ls) ==
    IF ls = <<>> THEN <<>>
    ELSE IF Len(ls) = 1 THEN ls[1]
    ELSE ls[1] \o <<"\n">> \o join_lines(Tail(ls))

\* s.strip()
strip(s) ==
    LET keep == {k \in 1..Len(s) : ~IsWs(s[k])} IN
    IF keep = {} THEN <<>> ELSE SubSeq(s, Min(keep), Max(keep))

RECURSIVE split_lines(_)
\* content.split("\n")
split_lines(c) ==
    LET nl == {k \in 1..Len(c) : c[k] = "\n"} IN
    IF nl = {} THEN <<c>>
    ELSE <<Slice(c, 1, Min(nl) - 1)>> \o split_lines(Slice(c, Min(nl) + 1, Len(c)))

RECURSIVE stripped_nonblank(_)
\* [s.strip() for s in lines if s.strip()]
stripped_nonblank(ls) ==
    IF ls = <<>> THEN <<>>
    ELSE (IF strip(Head(ls)) # <<>> THEN <<strip(Head(ls))>> ELSE <<>>)
         \o stripped_nonblank(Tail(ls))

\* lines 123-127: the list generate_roadmap returns.
roadmap_steps(c, n) ==
    LET all == stripped_nonblank(split_lines(c)) IN
    Slice(all, 1, IF n < Len(all) THEN n ELSE Len(all))

\* ------------------------------------------------------------------------
\* State. Every invocation p (a call of run, generate_roadmap or
\* draw_roadmap) has its own locals; the two files are shared by all.
\* ------------------------------------------------------------------------
VARIABLES
    pc,          \* where invocation p is
    caller,      \* the function invocation p entered through
    level,       \* generate_roadmap: level
    duration,    \* generate_roadmap: duration
    months,      \* generate_roadmap: months
    steps_count, \* generate_roadmap: steps_count
    content,     \* generate_roadmap: response.choices[0].message.content
    steps,       \* run: steps, passed to draw_roadmap as steps
    theme_name,  \* draw_roadmap: theme_name
    theme,       \* draw_roadmap: theme
    height,      \* draw_roadmap: height
    img,         \* draw_roadmap: img, the canvas
    y,           \* draw_roadmap: y, the vertical cursor
    boxes,       \* draw_roadmap: boxes
    i,           \* draw_roadmap: the index of the loop running, from 1
    img_path,    \* run: img_path
    result,      \* what the invocation returned or raised
    fs_img,      \* the image files on disk, by path
    fs_txt,      \* the text files on disk, by path
    text,        \* the string handed to textwrap.wrap on its own
    wrapped      \* what textwrap.wrap returned for it

vars == <<pc, caller, level, duration, months, steps_count, content, steps,
          theme_name, theme, height, img, y, boxes, i, img_path, result,
          fs_img, fs_txt, text, wrapped>>

genVars == <<level, duration, months, steps_count, content>>

drawVars == <<theme_name, theme, height, img, y, boxes, i>>

wrapVars == <<text, wrapped>>

fsVars == <<fs_img, fs_txt>>

Procs == DOMAIN pc

\* The file system after writing data at path.
Write(fs, path, data) ==
    [q \in DOMAIN fs \cup {path} |-> IF q = path THEN data ELSE fs[q]]

NoFiles == [q \in {} |-> NoImg]

\* ------------------------------------------------------------------------
\* draw_roadmap (lines 131-155)
\* ------------------------------------------------------------------------
\* A caller enters draw_roadmap(s, t).
draw_roadmap(p, s, t) ==
    /\ pc[p] = "idle"
    /\ pc' = [pc EXCEPT ![p] = "draw_roadmap"]
    /\ caller' = [caller EXCEPT ![p] = "draw_roadmap"]
    /\ steps' = [steps EXCEPT ![p] = s]
    /\ theme_name' = [theme_name EXCEPT ![p] = t]
    /\ UNCHANGED <<genVars, theme, height, img, y, boxes, i, img_path, result,
                   fsVars, wrapVars>>

\* lines 132-135: the theme lookup, which raises KeyError on an unknown key,
\* then the constants and the initial height.
draw_begin(p) ==
    /\ pc[p] = "draw_roadmap"
    /\ LET t == lookup_theme(theme_name[p]) IN
       IF t.raised
       THEN /\ pc' = [pc EXCEPT ![p] = "raised"]
            /\ result' = [result EXCEPT ![p].error = "KeyError"]
            /\ UNCHANGED <<theme, height, i>>
       ELSE /\ pc' = [pc EXCEPT ![p] = "height_loop"]
            /\ theme' = [theme EXCEPT ![p] = t.value]
            /\ height' = [height EXCEPT ![p] = initial_height]
            /\ i' = [i EXCEPT ![p] = 1]
            /\ UNCHANGED result
    /\ UNCHANGED <<caller, genVars, steps, theme_name, img, y, boxes, img_path,
                   fsVars, wrapVars>>

\* lines 136-137: one iteration of the height loop.
height_step(p) ==
    /\ pc[p] = "height_loop"
    /\ i[p] <= Len(steps[p])
    /\ height' = [height EXCEPT ![p] = @ + step_height(steps[p][i[p]])]
    /\ i' = [i EXCEPT ![p] = @ + 1]
    /\ UNCHANGED <<pc, caller, genVars, steps, theme_name, theme, img, y, boxes,
                   img_path, result, fsVars, wrapVars>>

\* lines 139-142: the canvas is allocated and the cursor starts at top.
allocate(p) ==
    /\ pc[p] = "height_loop"
    /\ i[p] > Len(steps[p])
    /\ img' = [img EXCEPT ![p] = [size |-> <<CANVAS_WIDTH, height[p]>>,
                                  bg |-> theme[p].bg, ops |-> <<>>]]
    /\ y' = [y EXCEPT ![p] = TOP]
    /\ boxes' = [boxes EXCEPT ![p] = <<>>]
    /\ i' = [i EXCEPT ![p] = 1]
    /\ pc' = [pc EXCEPT ![p] = "place_loop"]
    /\ UNCHANGED <<caller, genVars, steps, theme_name, theme, height, img_path,
                   result, fsVars, wrapVars>>

\* lines 143-146: one iteration of the placement loop.
place_box(p) ==
    /\ pc[p] = "place_loop"
    /\ i[p] <= Len(steps[p])
    /\ LET s == steps[p][i[p]]
           box == draw_box_rect(CX, y[p], BW, s)
       IN  /\ img' = [img EXCEPT ![p].ops = @ \o draw_box_ops(CX, y[p], BW, s, theme[p])]
           /\ boxes' = [boxes EXCEPT ![p] = Append(@, box)]
           /\ y' = [y EXCEPT ![p] = next_y(box)]
    /\ i' = [i EXCEPT ![p] = @ + 1]
    /\ UNCHANGED <<pc, caller, genVars, steps, theme_name, theme, height,
                   img_path, result, fsVars, wrapVars>>

\* The placement loop ends and the arrow loop of line 148 begins.
place_end(p) ==
    /\ pc[p] = "place_loop"
    /\ i[p] > Len(steps[p])
    /\ i' = [i EXCEPT ![p] = 1]
    /\ pc' = [pc EXCEPT ![p] = "arrow_loop"]
    /\ UNCHANGED <<caller, genVars, steps, theme_name, theme, height, img, y,
                   boxes, img_path, result, fsVars, wrapVars>>

\* lines 148-151: one iteration of the arrow loop.
arrow_step(p) ==
    /\ pc[p] = "arrow_loop"
    /\ i[p] <= arrow_count(boxes[p])
    /\ LET e == arrow_ends(boxes[p], i[p]) IN
       img' = [img EXCEPT ![p].ops = @ \o draw_arrow(e[1], e[2], theme[p].line)]
    /\ i' = [i EXCEPT ![p] = @ + 1]
    /\ UNCHANGED <<pc, caller, genVars, steps, theme_name, theme, height, y,
                   boxes, img_path, result, fsVars, wrapVars>>

\* lines 153-154: the arrow loop is over; img.save(path).
save(p) ==
    /\ pc[p] = "arrow_loop"
    /\ i[p] > arrow_count(boxes[p])
    /\ fs_img' = Write(fs_img, save_path(p), img[p])
    /\ pc' = [pc EXCEPT ![p] = "saved"]
    /\ UNCHANGED <<caller, genVars, steps, drawVars, img_path, result, fs_txt,
                   wrapVars>>

\* line 155: return path, to run (line 161) or to the outside caller.
draw_return(p) ==
    /\ pc[p] = "saved"
    /\ IF caller[p] = "run"
       THEN /\ img_path' = [img_path EXCEPT ![p] = save_path(p)]
            /\ pc' = [pc EXCEPT ![p] = "write_txt"]
            /\ UNCHANGED result
       ELSE /\ result' = [result EXCEPT ![p].img_path = save_path(p)]
            /\ pc' = [pc EXCEPT ![p] = "done"]
            /\ UNCHANGED img_path
    /\ UNCHANGED <<caller, genVars, steps, drawVars, fsVars, wrapVars>>

\* ------------------------------------------------------------------------
\* generate_roadmap (lines 95-127)
\* ------------------------------------------------------------------------
\* A caller enters generate_roadmap(domain, lvl, dur). The domain only goes
\* into the prompt and is left out.
generate_roadmap(p, lvl, dur) ==
    /\ pc[p] = "idle"
    /\ pc' = [pc EXCEPT ![p] = "generate_roadmap"]
    /\ caller' = [caller EXCEPT ![p] = "generate_roadmap"]
    /\ level' = [level EXCEPT ![p] = lvl]
    /\ duration' = [duration EXCEPT ![p] = dur]
    /\ UNCHANGED <<months, steps_count, content, steps, drawVars, img_path,
                   result, fsVars, wrapVars>>

\* lines 96-97
gen_begin(p) ==
    /\ pc[p] = "generate_roadmap"
    /\ months' = [months EXCEPT ![p] = parse_months(duration[p])]
    /\ steps_count' = [steps_count EXCEPT ![p] =
                          compute_steps(parse_months(duration[p]), level[p])]
    /\ pc' = [pc EXCEPT ![p] = "request"]
    /\ UNCHANGED <<caller, level, duration, content, steps, drawVars, img_path,
                   result, fsVars, wrapVars>>

\* lines 118-121: the chat completion answers with some content c.
request(p, c) ==
    /\ pc[p] = "request"
    /\ content' = [content EXCEPT ![p] = c]
    /\ pc' = [pc EXCEPT ![p] = "answered"]
    /\ UNCHANGED <<caller, level, duration, months, steps_count, steps,
                   drawVars, img_path, result, fsVars, wrapVars>>

\* lines 118-121: the chat completion raises (network or service error).
request_fails(p) ==
    /\ pc[p] = "request"
    /\ pc' = [pc EXCEPT ![p] = "raised"]
    /\ result' = [result EXCEPT ![p].error = "APIError"]
    /\ UNCHANGED <<caller, genVars, steps, drawVars, img_path, fsVars, wrapVars>>

\* lines 123-127: the steps are returned, to run (line 160), which calls
\* draw_roadmap(steps, theme) at line 161, or to the outside caller.
gen_return(p) ==
    /\ pc[p] = "answered"
    /\ LET r == roadmap_steps(content[p], steps_count[p]) IN
       IF caller[p] = "run"
       THEN /\ steps' = [steps EXCEPT ![p] = r]
            /\ pc' = [pc EXCEPT ![p] = "draw_roadmap"]
            /\ UNCHANGED result
       ELSE /\ result' = [result EXCEPT ![p].steps = r]
            /\ pc' = [pc EXCEPT ![p] = "done"]
            /\ UNCHANGED steps
    /\ UNCHANGED <<caller, genVars, drawVars, img_path, fsVars, wrapVars>>

\* ------------------------------------------------------------------------
\* run (lines 159-167)
\* ------------------------------------------------------------------------
\* The UI calls run(domain, lvl, dur, thm); line 160 enters generate_roadmap.
run(p, lvl, dur, thm) ==
    /\ pc[p] = "idle"
    /\ pc' = [pc EXCEPT ![p] = "generate_roadmap"]
    /\ caller' = [caller EXCEPT ![p] = "run"]
    /\ level' = [level EXCEPT ![p] = lvl]
    /\ duration' = [duration EXCEPT ![p] = dur]
    /\ theme_name' = [theme_name EXCEPT ![p] = thm]
    /\ UNCHANGED <<months, steps_count, content, steps, theme, height, img, y,
                   boxes, i, img_path, result, fsVars, wrapVars>>

\* line 163: txt_path = "/tmp/roadmap.txt", whichever invocation p runs.
txt_path(p) == TXT_PATH

\* lines 163-165: the steps are written to the text file.
write_txt(p) ==
    /\ pc[p] = "write_txt"
    /\ fs_txt' = Write(fs_txt, txt_path(p), join_lines(steps[p]))
    /\ pc' = [pc EXCEPT ![p] = "written"]
    /\ UNCHANGED <<caller, genVars, steps, drawVars, img_path, result, fs_img,
                   wrapVars>>

\* line 167
run_return(p) ==
    /\ pc[p] = "written"
    /\ result' = [result EXCEPT ![p] =
                     [steps |-> <<>>, text |-> join_lines(steps[p]),
                      img_path |-> img_path[p], txt_path |-> txt_path(p),
                      error |-> ""]]
    /\ pc' = [pc EXCEPT ![p] = "done"]
    /\ UNCHANGED <<caller, genVars, steps, drawVars, img_path, fsVars, wrapVars>>

\* ------------------------------------------------------------------------
\* textwrap.wrap on its own, as its two call sites call it
\* ------------------------------------------------------------------------
\* line 73, in draw_box
wrap_in_draw_box(p) ==
    /\ pc[p] = "wrap"
    /\ wrapped' = draw_box_wrapped(text)
    /\ pc' = [pc EXCEPT ![p] = "wrapped"]
    /\ UNCHANGED <<caller, genVars, steps, drawVars, img_path, result, fsVars, text>>

\* line 137, in draw_roadmap
wrap_in_draw_roadmap(p) ==
    /\ pc[p] = "wrap"
    /\ wrapped' = wrap(text, HEIGHT_WRAP_WIDTH)
    /\ pc' = [pc EXCEPT ![p] = "wrapped"]
    /\ UNCHANGED <<caller, genVars, steps, drawVars, img_path, result, fsVars, text>>

\* ------------------------------------------------------------------------
\* Inputs and bounds
\* ------------------------------------------------------------------------
\* The largest number of steps handed to draw_roadmap from outside.
MaxSteps == 3

\* The largest number of words of a string handed to textwrap.wrap on its own.
MaxWords == 2

\* The largest length of a duration string.
MaxDurationLen == 2

\* The largest number of non-blank lines of a generator answer.
MaxAnswerLines == 7

SeqsUpTo(S, n) == UNION {[1..k -> S] : k \in 0..n}

\* "learn loops" (one line), "" (no line), one word of 60 (two lines), three
\* words of 30 (three lines).
StepPool ==
    { <<"l", "e", "a", "r", "n", " ", "l", "o", "o", "p", "s">>,
      <<>>,
      Rep("c", 60),
      Rep("d", 30) \o <<" ">> \o Rep("e", 30) \o <<" ">> \o Rep("f", 30) }

StepSeqs == SeqsUpTo(StepPool, MaxSteps)

ThemeKeys == DOMAIN THEMES \cup {"Neon"}

Levels == DOMAIN LEVEL_MAX_STEPS

Durations == SeqsUpTo({"1", "2", "m"}, MaxDurationLen)

WordPool ==
    { Rep("a", 5), Rep("f", 34), Rep("c", 38), Rep("d", 39), Rep("e", 60),
      <<"a", "b", "-", "c", "d", "-", "e", "f">> }

RECURSIVE JoinWith(_, _)
JoinWith(ws, sep) ==
    IF ws = <<>> THEN <<>>
    ELSE IF Len(ws) = 1 THEN ws[1]
    ELSE ws[1] \o sep \o JoinWith(Tail(ws), sep)

WrapInputs ==
    {JoinWith(ws, sep) : ws \in SeqsUpTo(WordPool, MaxWords), sep \in {<<" ">>, <<"\t", " ">>}}

\* The k-th line of an answer, in one of three styles: bare, padded with
\* whitespace, or followed by a blank line.
AnswerLine(k, style) ==
    CASE style = "bare" -> <<Rep("s", k)>>
      [] style = "padded" -> <<<<" ">> \o Rep("s", k) \o <<" ", "\t">>>>
      [] style = "spaced" -> <<Rep("s", k), <<" ">>>>

RECURSIVE AnswerLines(_, _)
AnswerLines(n, style) ==
    IF n = 0 THEN <<>> ELSE AnswerLines(n - 1, style) \o AnswerLine(n, style)

Answers ==
    {join_lines(AnswerLines(n, style)) :
        n \in 0..MaxAnswerLines, style \in {"bare", "padded", "spaced"}}

RaceAnswers == {join_lines(AnswerLines(n, "bare")) : n \in 1..2}

RaceThemes == {"Dark", "Neon"}

OldImg == [size |-> <<CANVAS_WIDTH, 1>>, bg |-> "old", ops |-> <<>>]

\* ------------------------------------------------------------------------
\* Specifications
\* ------------------------------------------------------------------------
InitLocals(P, at) ==
    /\ pc = [p \in P |-> at]
    /\ caller = [p \in P |-> ""]
    /\ level = [p \in P |-> ""]
    /\ duration = [p \in P |-> <<>>]
    /\ months = [p \in P |-> 0]
    /\ steps_count = [p \in P |-> 0]
    /\ content = [p \in P |-> <<>>]
    /\ steps = [p \in P |-> <<>>]
    /\ theme_name = [p \in P |-> ""]
    /\ theme = [p \in P |-> NoTheme]
    /\ height = [p \in P |-> 0]
    /\ img = [p \in P |-> NoImg]
    /\ y = [p \in P |-> 0]
    /\ boxes = [p \in P |-> <<>>]
    /\ i = [p \in P |-> 0]
    /\ img_path = [p \in P |-> ""]
    /\ result = [p \in P |-> NoResult]

\* One call of draw_roadmap from outside; the image file is absent or holds
\* an older image.
Init ==
    /\ InitLocals({1}, "idle")
    /\ fs_img \in {NoFiles, Write(NoFiles, IMG_PATH, OldImg)}
    /\ fs_txt = NoFiles
    /\ text = <<>>
    /\ wrapped = <<>>

Next ==
    \E p \in Procs :
        \/ \E s \in StepSeqs, t \in ThemeKeys : draw_roadmap(p, s, t)
        \/ draw_begin(p)
        \/ height_step(p)
        \/ allocate(p)
        \/ place_box(p)
        \/ place_end(p)
        \/ arrow_step(p)
        \/ save(p)
        \/ draw_return(p)

Spec == Init /\ [][Next]_vars

\* One call of generate_roadmap from outside.
InitGen ==
    /\ InitLocals({1}, "idle")
    /\ fs_img = NoFiles
    /\ fs_txt = NoFiles
    /\ text = <<>>
    /\ wrapped = <<>>

NextGen ==
    \E p \in Procs :
        \/ \E lvl \in Levels, dur \in Durations : generate_roadmap(p, lvl, dur)
        \/ gen_begin(p)
        \/ \E c \in Answers : request(p, c)
        \/ request_fails(p)
        \/ gen_return(p)

SpecGen == InitGen /\ [][NextGen]_vars

\* One call of textwrap.wrap.
InitWrap ==
    /\ InitLocals({1}, "wrap")
    /\ fs_img = NoFiles
    /\ fs_txt = NoFiles
    /\ text \in WrapInputs
    /\ wrapped = <<>>

NextWrap ==
    \E p \in Procs :
        \/ wrap_in_draw_box(p)
        \/ wrap_in_draw_roadmap(p)

SpecWrap == InitWrap /\ [][NextWrap]_vars

\* Two concurrent calls of run, as two UI requests make them.
InitRace ==
    /\ InitLocals({1, 2}, "idle")
    /\ fs_img = NoFiles
    /\ fs_txt = NoFiles
    /\ text = <<>>
    /\ wrapped = <<>>

NextRace ==
    \E p \in Procs :
        \/ \E thm \in RaceThemes : run(p, "Beginner", <<"1">>, thm)
        \/ gen_begin(p)
        \/ \E c \in RaceAnswers : request(p, c)
        \/ request_fails(p)
        \/ gen_return(p)
        \/ draw_begin(p)
        \/ height_step(p)
        \/ allocate(p)
        \/ place_box(p)
        \/ place_end(p)
        \/ arrow_step(p)
        \/ save(p)
        \/ draw_return(p)
        \/ write_txt(p)
        \/ run_return(p)

SpecRace == InitRace /\ [][NextRace]_vars
\* ------------------------------------------------------------------------
\* Properties
\* ------------------------------------------------------------------------
RECURSIVE Sum(_)
Sum(ns) == IF ns = <<>> THEN 0 ELSE Head(ns) + Sum(Tail(ns))

\* The positions of the calls of kind op among the drawing calls ops.
OpsAt(ops, op) == {k \in 1..Len(ops) : ops[k].op = op}

\* The n-th smallest element of the set of numbers S.
Nth(S, n) == CHOOSE x \in S : Cardinality({z \in S : z <= x}) = n

\* The canvas of p has been allocated (line 139 has run).
Allocated(p) == pc[p] \in {"place_loop", "arrow_loop", "saved", "write_txt", "written", "done"}
                /\ img[p] # NoImg

\* draw_roadmap has drawn everything and saved.
Drawn(p) == pc[p] \in {"saved", "write_txt", "written", "done"} /\ img[p] # NoImg

NotWs(c) == ~IsWs(c)

\* The characters of s that are not whitespace, in order.
NonWs(s) == SelectSeq(s, NotWs)

\* The whitespace-separated words of s, in order (str.split()).
Words(s) ==
    LET starts == {k \in 1..Len(s) : ~IsWs(s[k]) /\ (k = 1 \/ IsWs(s[k - 1]))}
        EndOf(a) == Min({k \in a..Len(s) : k = Len(s) \/ IsWs(s[k + 1])})
    IN  [n \in 1..Cardinality(starts) |-> SubSeq(s, Nth(starts, n), EndOf(Nth(starts, n)))]

\* The words of all lines, in line order.
LineWords(ls) == Concat([k \in 1..Len(ls) |-> Words(ls[k])])

Range(f) == {f[k] : k \in DOMAIN f}

\* The height of the box of step s as the claims state it.
BoxHeight(s) == 34 + 18 * Len(wrap(s, 38))

\* C1 as stated: once the canvas is allocated its height is exactly the top
\* margin 60 plus, for every step, the box height plus the gap 35, and
\* nothing more.
C1_Original ==
    \A p \in Procs :
        Allocated(p) =>
            img[p].size[2] = 60 + Sum([k \in 1..Len(steps[p]) |-> BoxHeight(steps[p][k]) + 35])

\* C1 as amended: the canvas height is the top margin 60 plus a bottom margin
\* of 60 plus, for every step, the box height plus the gap 35; once all boxes
\* are placed this is 120 plus the heights of the boxes drawn and their gaps.
C1_Height ==
    \A p \in Procs :
        /\ Allocated(p) =>
              img[p].size[2] =
                  60 + 60 + Sum([k \in 1..Len(steps[p]) |-> BoxHeight(steps[p][k]) + 35])
        /\ Drawn(p) =>
              img[p].size[2] =
                  120 + Sum([k \in 1..Len(boxes[p]) |-> (boxes[p][k][4] - boxes[p][k][2]) + 35])

C1_Witness ==
    \E p \in Procs :
        /\ Drawn(p)
        /\ Len(steps[p]) = 3
        /\ \E k \in 1..3 : Len(wrap(steps[p][k], 38)) = 3
        /\ steps[p][1] = <<>>

\* C2: when draw_roadmap has drawn n steps it has recorded n rectangles,
\* drawn n rounded rectangles and max(0, n - 1) arrows (a line and an
\* arrowhead each).
C2_Counts ==
    \A p \in Procs :
        Drawn(p) =>
            LET n == Len(steps[p])
                arrows == IF n >= 1 THEN n - 1 ELSE 0
            IN  /\ Len(boxes[p]) = n
                /\ Cardinality(OpsAt(img[p].ops, "rounded_rectangle")) = n
                /\ Cardinality(OpsAt(img[p].ops, "line")) = arrows
                /\ Cardinality(OpsAt(img[p].ops, "polygon")) = arrows

C2_Witness ==
    \E p \in Procs :
        /\ pc[p] = "done"
        /\ Len(steps[p]) = 3
        /\ Cardinality(OpsAt(img[p].ops, "line")) = 2

\* The texts drawn after the k-th rounded rectangle and before the next
\* rectangle or arrow, joined.
BoxText(ops, k) ==
    LET rects == OpsAt(ops, "rounded_rectangle")
        from == Nth(rects, k)
        later == {j \in (from + 1)..Len(ops) : ops[j].op # "text"}
        to == IF later = {} THEN Len(ops) ELSE Min(later) - 1
    IN  Concat([j \in 1..(to - from) |-> ops[from + j].text])

\* C3: the k-th box recorded and drawn holds the k-th step, box tops grow
\* strictly with k, and the k-th arrow runs from the centre of box k's bottom
\* edge, 6 px lower, to the centre of box k+1's top edge, 6 px higher.
C3_Order ==
    \A p \in Procs :
        Allocated(p) =>
            LET ops == img[p].ops
                bs == boxes[p]
                rects == OpsAt(ops, "rounded_rectangle")
                lines == OpsAt(ops, "line")
            IN  /\ Cardinality(rects) = Len(bs)
                /\ \A k \in 1..Len(bs) :
                      /\ ops[Nth(rects, k)].xy = bs[k]
                      /\ NonWs(BoxText(ops, k)) = NonWs(steps[p][k])
                /\ \A k \in 1..(Len(bs) - 1) : bs[k][2] < bs[k + 1][2]
                /\ Cardinality(lines) <= IF Len(bs) >= 1 THEN Len(bs) - 1 ELSE 0
                /\ \A k \in 1..Cardinality(lines) :
                      ops[Nth(lines, k)].xy =
                          << bs[k][1] + (bs[k][3] - bs[k][1]) \div 2, bs[k][4] + 6,
                             bs[k + 1][1] + (bs[k + 1][3] - bs[k + 1][1]) \div 2,
                             bs[k + 1][2] - 6 >>

C3_Witness ==
    \E p \in Procs :
        /\ pc[p] = "done"
        /\ Len(boxes[p]) = 3
        /\ steps[p][1] # steps[p][2]
        /\ steps[p][2] # steps[p][3]
        /\ Cardinality(OpsAt(img[p].ops, "polygon")) = 2

\* C4: with no steps and a valid theme key draw_roadmap never raises, and
\* when it returns it has allocated a canvas of positive height, drawn
\* nothing on it, saved it and returned the output path.
C4_Empty ==
    \A p \in Procs :
        (caller[p] = "draw_roadmap" /\ steps[p] = <<>> /\ theme_name[p] \in DOMAIN THEMES) =>
            /\ pc[p] # "raised"
            /\ Allocated(p) => img[p].size[2] > 0 /\ img[p].size[1] > 0
            /\ pc[p] = "done" =>
                  /\ img[p].ops = <<>>
                  /\ boxes[p] = <<>>
                  /\ IMG_PATH \in DOMAIN fs_img
                  /\ fs_img[IMG_PATH] = img[p]
                  /\ result[p].img_path = IMG_PATH
                  /\ result[p].error = ""

C4_Witness ==
    \E p \in Procs :
        /\ pc[p] = "done"
        /\ steps[p] = <<>>
        /\ theme_name[p] = "Dark"
        /\ fs_img[IMG_PATH].size = <<1000, 120>>

\* C8: with a theme key outside THEMES, draw_roadmap raises at its first
\* line: no theme is chosen, no canvas is allocated, nothing is drawn, and
\* the image file is what it was before the call.
C8_FailFast ==
    \A p \in Procs :
        (theme_name[p] \notin DOMAIN THEMES /\ pc[p] \notin {"idle", "draw_roadmap"}) =>
            /\ pc[p] = "raised"
            /\ result[p].error = "KeyError"
            /\ result[p].img_path = ""
            /\ theme[p] = NoTheme
            /\ img[p] = NoImg
            /\ boxes[p] = <<>>
            /\ fs_img \in {NoFiles, Write(NoFiles, IMG_PATH, OldImg)}

C8_Witness ==
    \E p \in Procs :
        /\ pc[p] = "raised"
        /\ theme_name[p] = "Neon"
        /\ Len(steps[p]) = 2
        /\ IMG_PATH \in DOMAIN fs_img
        /\ fs_img[IMG_PATH] = OldImg

\* C10: in the placement loop the cursor is 60 before the first box and the
\* last box's bottom + 35 after each; the first box's top is 60, each later
\* top is the previous bottom + 35, no box is empty, every bottom is within
\* the canvas height, and after the last box the cursor is the canvas height
\* less the bottom margin: the two passes counted the same lines.
C10_Placement ==
    \A p \in Procs :
        Allocated(p) =>
            LET bs == boxes[p] IN
            /\ y[p] = IF bs = <<>> THEN 60 ELSE bs[Len(bs)][4] + 35
            /\ bs # <<>> => bs[1][2] = 60
            /\ \A k \in 1..(Len(bs) - 1) : bs[k + 1][2] = bs[k][4] + 35
            /\ \A k \in 1..Len(bs) : bs[k][2] < bs[k][4] /\ bs[k][4] <= img[p].size[2]
            /\ pc[p] = "place_loop" => Len(bs) = i[p] - 1
            /\ pc[p] # "place_loop" => y[p] = img[p].size[2] - 60

C10_Witness ==
    \E p \in Procs :
        /\ pc[p] = "place_loop"
        /\ Len(boxes[p]) = 2
        /\ Len(steps[p]) = 3
        /\ boxes[p][2][4] - boxes[p][2][2] = 34 + 3 * 18

\* A word of at most 38 characters without a hyphen.
Unbreakable(w) == Len(w) <= 38 /\ \A k \in 1..Len(w) : w[k] # "-"

\* C5 as stated: every line has at most 38 characters unless it is one
\* unsplit word longer than that, and every word of the input stands whole
\* in some line.
C5_Original ==
    \A p \in Procs :
        pc[p] = "wrapped" =>
            /\ \A k \in 1..Len(wrapped) :
                  Len(wrapped[k]) <= 38 \/ wrapped[k] \in Range(Words(text))
            /\ \A w \in Range(Words(text)) : w \in Range(LineWords(wrapped))

\* C5 as amended: every line has between 1 and 38 characters, with no
\* exception, so a word longer than 38 characters is never a line or part of
\* one but is broken into pieces; a word of at most 38 characters without a
\* hyphen stands whole in some line.
C5_LineWidth ==
    \A p \in Procs :
        pc[p] = "wrapped" =>
            /\ \A k \in 1..Len(wrapped) : Len(wrapped[k]) >= 1 /\ Len(wrapped[k]) <= 38
            /\ \A w \in Range(Words(text)) :
                  /\ Unbreakable(w) => w \in Range(LineWords(wrapped))
                  /\ Len(w) > 38 => w \notin Range(LineWords(wrapped))

C5_Witness ==
    \E p \in Procs :
        /\ pc[p] = "wrapped"
        /\ Words(text) = <<Rep("a", 5), Rep("e", 60)>>
        /\ wrapped = <<Rep("a", 5) \o <<" ">> \o Rep("e", 32), Rep("e", 28)>>

\* C6 as stated: for a non-empty string the words of the lines, in line
\* order, are the words of the input.
C6_Original ==
    \A p \in Procs :
        (pc[p] = "wrapped" /\ text # <<>>) => LineWords(wrapped) = Words(text)

\* C6 as amended: for a non-empty string the non-whitespace characters of
\* the lines, in line order, are those of the input; the words are those of
\* the input when every word has at most 38 characters and no hyphen.
C6_Characters ==
    \A p \in Procs :
        (pc[p] = "wrapped" /\ text # <<>>) =>
            /\ NonWs(Concat(wrapped)) = NonWs(text)
            /\ (\A w \in Range(Words(text)) : Unbreakable(w)) =>
                  LineWords(wrapped) = Words(text)

C6_Witness ==
    \E p \in Procs :
        /\ pc[p] = "wrapped"
        /\ Words(text) = <<Rep("f", 34), <<"a", "b", "-", "c", "d", "-", "e", "f">>>>
        /\ Len(wrapped) = 2
        /\ LineWords(wrapped) # Words(text)

\* The decimal value of a string of digits, digit by digit.
DecimalValue(ds) ==
    Sum([k \in 1..Len(ds) |-> DigitValue(ds[k]) * (10 ^ (Len(ds) - k))])

\* The months a duration states: its first run of digits, 3 without one.
StatedMonths(d) ==
    IF \A k \in 1..Len(d) : d[k] \notin Digits THEN 3
    ELSE LET a == CHOOSE a \in 1..Len(d) :
                     d[a] \in Digits /\ \A j \in 1..(a - 1) : d[j] \notin Digits
             b == CHOOSE b \in a..Len(d) :
                     /\ \A j \in a..b : d[j] \in Digits
                     /\ b = Len(d) \/ d[b + 1] \notin Digits
         IN  DecimalValue(SubSeq(d, a, b))

\* min(2 x months, the level's max steps) with a floor of 3.
StatedCap(d, lvl) ==
    LET m == 2 * StatedMonths(d)
        capped == IF m < LEVEL_MAX_STEPS[lvl] THEN m ELSE LEVEL_MAX_STEPS[lvl]
    IN  IF capped < 3 THEN 3 ELSE capped

\* C7: the step cap generate_roadmap computes is min(2 x stated months, the
\* level's max steps) with a floor of 3, lies between 3 and the level's max
\* steps, and the list returned has at most that many entries, each a
\* non-blank stripped line of the answer.
C7_Cap ==
    \A p \in Procs :
        /\ pc[p] \in {"request", "answered", "done", "raised"} =>
              /\ months[p] = StatedMonths(duration[p])
              /\ steps_count[p] = StatedCap(duration[p], level[p])
              /\ steps_count[p] >= 3
              /\ steps_count[p] <= LEVEL_MAX_STEPS[level[p]]
        /\ pc[p] = "done" =>
              /\ Len(result[p].steps) <= steps_count[p]
              /\ Len(result[p].steps) <= Len(split_lines(content[p]))

C7_Witness ==
    \E p \in Procs :
        /\ pc[p] = "done"
        /\ months[p] = 2
        /\ steps_count[p] = 4
        /\ Len(result[p].steps) = 4
        /\ Len(Words(content[p])) = 7

\* Invocation p has saved its canvas.
Saved(p) == pc[p] \in {"saved", "write_txt", "written", "done"}

\* C9: every invocation of run saves to and returns the same two paths, so
\* there is never more than one image file and one text file, each holding
\* what one of the invocations that wrote it produced: the file of the only
\* writer so far, and of either writer once both have written.
C9_SharedPaths ==
    /\ DOMAIN fs_img \subseteq {IMG_PATH}
    /\ DOMAIN fs_txt \subseteq {TXT_PATH}
    /\ (\E p \in Procs : Saved(p)) =>
          /\ IMG_PATH \in DOMAIN fs_img
          /\ fs_img[IMG_PATH] \in {img[p] : p \in {q \in Procs : Saved(q)}}
    /\ (\E p \in Procs : pc[p] \in {"written", "done"}) =>
          /\ TXT_PATH \in DOMAIN fs_txt
          /\ fs_txt[TXT_PATH] \in
                {join_lines(steps[p]) : p \in {q \in Procs : pc[q] \in {"written", "done"}}}
    /\ \A p \in Procs :
          pc[p] = "done" =>
              /\ result[p].img_path = IMG_PATH
              /\ result[p].txt_path = TXT_PATH
              /\ result[p].text = join_lines(steps[p])

\* The interleaving of C9: both invocations have returned; the image path
\* returned to invocation 1 holds the canvas of invocation 2, while the text
\* file holds the steps of invocation 1.
C9_Witness ==
    /\ pc = [p \in {1, 2} |-> "done"]
    /\ steps[1] # steps[2]
    /\ img[1] # img[2]
    /\ fs_img[result[1].img_path] = img[2]
    /\ fs_txt[result[1].txt_path] = join_lines(steps[1])
    /\ fs_txt[result[2].txt_path] # result[2].text

====
